---- MODULE Spec2Model ----
(***************************************************************************)
(* Booking coordination of the totobackend platform: the booking table,    *)
(* the requests served by core.views.BookingViewSet (create, update,       *)
(* destroy, confirm, cancel), BookingService.create_booking with the       *)
(* notification it records, and the publication of time slots.             *)
(*                                                                         *)
(* Spec follows one booking through every request of every user.           *)
(* CreateSpec follows creation: every interval and amount, through the     *)
(* endpoint and through the service, with and without a published slot.    *)
(* SlotSpec follows the time slots: publication, rewriting and listing.    *)
(* MessageSpec follows the messages of two conversations: sending through  *)
(* the endpoint and through MessagingService, and reading.                 *)
(* ConversationSpec follows the conversations: creation through the        *)
(* endpoint and through MessagingService, direct chats and renaming.       *)
(* EditSpec follows stored messages through rewriting and deletion.        *)
(* NotificationSpec follows the notifications: creation, listing, marking  *)
(* as read, counting, rewriting and deletion.                              *)
(* AccountSpec follows login and the update of the own profile.            *)
(* RaceSpec follows direct chats and sent messages when two workers serve  *)
(* requests at the same time, one query at a step.                         *)
(* ResetSpec follows password reset tokens from request to redemption.     *)
(***************************************************************************)
EXTENDS Integers, Sequences, FiniteSets, TLC

VARIABLES
    role,            \* User.role of every registered user
    bookings,        \* the booking table: row b has primary key b
    time_slots,      \* the time_slot table
    notifications,   \* the notification table
    conversations,   \* the conversation table: row c has primary key c
    messages,        \* the message table, in the order of created_at
    last,            \* the answer to the latest request or service call
    reply,           \* the body of that answer, where the model reads it
    inflight,        \* the requests that workers are in the middle of serving
    password,        \* apps.users: the password of every user
    resets,          \* apps.users: the password_resets table
    clock            \* datetime.now()

vars == <<role, bookings, time_slots, notifications, conversations, messages,
          last, reply, inflight, password, resets, clock>>

----------------------------------------------------------------------------
(* Bounds of the model *)

\* Booking rows ever inserted while the life of one booking is followed
MaxBookings == 1

\* Booking rows ever inserted while creation is followed
MaxCreated == 2

\* TimeSlot rows ever inserted
MaxSlots == 1

\* Conversation rows ever inserted
MaxConversations == 2

\* Message rows ever inserted
MaxMessages == 2

\* Notification rows ever inserted
MaxNotifications == 2

\* Workers serving requests at the same time
MaxWorkers == 2

\* PasswordReset rows ever inserted
MaxResets == 2

\* Hours that pass
MaxClock == 2

----------------------------------------------------------------------------
(* Data *)

\* the registered, authenticated users
Users == {"u1", "u2", "u3"}

\* the workers of the server, each serving one request at a time
Workers == 1..MaxWorkers

\* no worker is in the middle of a request
Idle == [w \in Workers |-> [op |-> "idle"]]

\* a primary key that resolves to no User row
NoUser == "u0"

\* core.models.Role
Roles == {"ADMIN", "INSTRUCTOR", "STUDENT"}

\* core.models.Booking.STATUS_CHOICES
STATUS_CHOICES == {"pending", "confirmed", "cancelled", "completed"}

\* a status string that is not among the choices
BadStatus == "bogus"

\* a field a request does not carry
Absent == "absent"

\* timestamps
Times == {1, 2}

\* total_amount values: DecimalField carries no minimum
Amounts == {-1, 1}

\* the place of a deleted Booking row: primary keys are never reused
NoRow == [deleted |-> TRUE]

\* primary keys a request may name; the last of LifeIds is never inserted
LifeIds == 1..(MaxBookings + 1)
CreateIds == 1..MaxCreated

IsBooking(b) == b \in DOMAIN bookings /\ bookings[b] # NoRow

\* the status of row b, "none" when there is no such row
StatusOf(b) == IF IsBooking(b) THEN bookings[b].status ELSE "none"

\* the answer to a request: what was asked, by whom, on which row, the status
\* the row had when the request arrived, and the HTTP status answered
Response(op, actor, b, code) ==
    [op |-> op, actor |-> actor, booking |-> b, was |-> StatusOf(b),
     code |-> code]

----------------------------------------------------------------------------
(* core.models.Booking, core.models.TimeSlot, core.models.Notification *)

\* Booking.objects.create(...): status is not among the arguments and takes the
\* field's default
NewBooking(student, instructor, start, end, amount) ==
    [student |-> student, instructor |-> instructor,
     start_date |-> start, end_date |-> end,
     status |-> "pending", total_amount |-> amount]

\* TimeSlot(instructor, start_time, end_time), is_available defaulting to true
NewTimeSlot(instructor, start, end) ==
    [instructor |-> instructor, start_time |-> start, end_time |-> end,
     is_available |-> TRUE]

----------------------------------------------------------------------------
(* core.services *)

\* NotificationService.send_notification
send_notification(user, notification_type, title, related_id) ==
    Append(notifications,
           [user |-> user, notification_type |-> notification_type,
            title |-> title, is_read |-> FALSE,
            related_object_id |-> related_id])

\* BookingService.create_booking: inserts the row without validating anything,
\* then records a booking notification for the instructor
ServiceCreate(student, instructor, start, end, amount) ==
    /\ bookings' = Append(bookings,
                          NewBooking(student, instructor, start, end, amount))
    /\ notifications' = send_notification(instructor, "booking",
                                          "New Booking Request",
                                          Len(bookings) + 1)
    /\ last' = Response("create_booking", student, Len(bookings) + 1, "returned")
    /\ UNCHANGED <<role, time_slots, conversations, messages, reply,
                   inflight, password, resets, clock>>

----------------------------------------------------------------------------
(* core.views.TimeSlotViewSet *)

\* POST /time-slots/ with the role of the caller never looked at
PublishSlot_NoRoleCheck(u, start, end) ==
    /\ time_slots' = Append(time_slots, NewTimeSlot(u, start, end))
    /\ last' = Response("publish_slot", u, 0, "HTTP_201_CREATED")
    /\ UNCHANGED <<role, bookings, notifications, conversations, messages, reply,
                   inflight, password, resets, clock>>

\* POST /time-slots/ : perform_create raises the built-in PermissionError for a
\* caller who is no instructor, which no handler turns into a 4xx answer;
\* TimeSlotSerializer relates start_time and end_time in no way
PublishSlot(u, start, end) ==
    /\ IF role[u] # "INSTRUCTOR"
       THEN /\ time_slots' = time_slots
            /\ last' = Response("publish_slot", u, 0,
                                "HTTP_500_INTERNAL_SERVER_ERROR")
       ELSE /\ time_slots' = Append(time_slots, NewTimeSlot(u, start, end))
            /\ last' = Response("publish_slot", u, 0, "HTTP_201_CREATED")
    /\ UNCHANGED <<role, bookings, notifications, conversations, messages, reply,
                   inflight, password, resets, clock>>

\* a queryset that is the same for every caller
slot_queryset_AnyCaller(u, now) ==
    {t \in DOMAIN time_slots :
        /\ time_slots[t].is_available
        /\ time_slots[t].start_time >= now}

\* TimeSlotViewSet.get_queryset at the time now: an instructor's own slots,
\* whatever their availability and start; for every other caller the
\* available slots that start no earlier than now
slot_queryset(u, now) ==
    IF role[u] = "INSTRUCTOR"
    THEN {t \in DOMAIN time_slots : time_slots[t].instructor = u}
    ELSE {t \in DOMAIN time_slots :
            /\ time_slots[t].is_available
            /\ time_slots[t].start_time >= now}

\* GET /time-slots/ : the rows of the caller's queryset
ListSlots(u, now) ==
    /\ last' = Response("list_slots", u, 0, "HTTP_200_OK")
    /\ reply' = [now |-> now, ids |-> slot_queryset(u, now)]
    /\ UNCHANGED <<role, bookings, time_slots, notifications, conversations,
                   messages,
                   inflight, password, resets, clock>>

\* the fields of a TimeSlot row a PATCH body writes: instructor is read-only
ApplySlotPatch(row, patch) ==
    [f \in DOMAIN row |->
        IF f \in {"start_time", "end_time", "is_available"} \cap DOMAIN patch
        THEN patch[f] ELSE row[f]]

\* PATCH /time-slots/{t}/ : get_object answers 404 outside the caller's
\* queryset; TimeSlotSerializer validates nothing about the interval
UpdateSlot(u, t, patch, now) ==
    /\ IF t \in slot_queryset(u, now)
       THEN /\ time_slots' = [time_slots EXCEPT
                                ![t] = ApplySlotPatch(time_slots[t], patch)]
            /\ last' = Response("update_slot", u, t, "HTTP_200_OK")
       ELSE /\ time_slots' = time_slots
            /\ last' = Response("update_slot", u, t, "HTTP_404_NOT_FOUND")
    /\ UNCHANGED <<role, bookings, notifications, conversations, messages,
                   reply,
                   inflight, password, resets, clock>>

----------------------------------------------------------------------------
(* core.views.BookingViewSet *)

\* get_queryset: the rows the requesting user may address
get_queryset(u) ==
    IF role[u] = "STUDENT"
    THEN {b \in DOMAIN bookings : IsBooking(b) /\ bookings[b].student = u}
    ELSE IF role[u] = "INSTRUCTOR"
    THEN {b \in DOMAIN bookings : IsBooking(b) /\ bookings[b].instructor = u}
    ELSE {b \in DOMAIN bookings : IsBooking(b)}

\* get_object: the row of the queryset with this primary key, or Http404
Found(u, b) == b \in get_queryset(u)

\* two non-empty intervals that share an instant
Overlap(s1, e1, s2, e2) == s1 < e2 /\ s2 < e1

\* CreateValid with the interval check the source lacks: an interval that
\* overlaps a live booking of the same instructor is refused
CreateValid_NoOverlap(req) ==
    /\ req.instructor \in Users
    /\ \A b \in DOMAIN bookings :
         (/\ IsBooking(b)
          /\ bookings[b].instructor = req.instructor
          /\ bookings[b].status # "cancelled")
         => ~Overlap(req.start_date, req.end_date,
                     bookings[b].start_date, bookings[b].end_date)

\* BookingCreateSerializer.is_valid: the instructor key must resolve to a user;
\* nothing relates start_date to end_date, total_amount has no lower bound, and
\* neither the time slots nor the other bookings are read
CreateValid(req) == req.instructor \in Users

\* ApiCreate with status among the serializer's fields: the status the request
\* carries is stored
ApiCreate_HonoursStatus(u, req) ==
    /\ IF CreateValid(req)
       THEN /\ bookings' = Append(bookings,
                   [NewBooking(u, req.instructor, req.start_date, req.end_date,
                               req.total_amount)
                    EXCEPT !.status = IF req.status = Absent THEN @
                                      ELSE req.status])
            /\ last' = Response("create", u, Len(bookings) + 1, "HTTP_201_CREATED")
       ELSE /\ bookings' = bookings
            /\ last' = Response("create", u, 0, "HTTP_400_BAD_REQUEST")
    /\ UNCHANGED <<role, time_slots, notifications, conversations, messages, reply,
                   inflight, password, resets, clock>>

\* POST /bookings/ : BookingCreateSerializer.create with student = request.user.
\* The serializer has no status field: a status in the request is dropped.
ApiCreate(u, req) ==
    /\ IF CreateValid(req)
       THEN /\ bookings' = Append(bookings,
                   NewBooking(u, req.instructor, req.start_date, req.end_date,
                              req.total_amount))
            /\ last' = Response("create", u, Len(bookings) + 1, "HTTP_201_CREATED")
       ELSE /\ bookings' = bookings
            /\ last' = Response("create", u, 0, "HTTP_400_BAD_REQUEST")
    /\ UNCHANGED <<role, time_slots, notifications, conversations, messages, reply,
                   inflight, password, resets, clock>>

\* BookingSerializer.is_valid on a partial update: a status must be one of the
\* choices and an instructor key must resolve to a user
UpdateValid(patch) ==
    /\ patch.status \in STATUS_CHOICES \cup {Absent}
    /\ patch.instructor \in Users \cup {Absent}

\* BookingSerializer.update: every writable field the request carries is set;
\* student is read-only
ApplyPatch(row, patch) ==
    [row EXCEPT
       !.status = IF patch.status = Absent THEN @ ELSE patch.status,
       !.instructor = IF patch.instructor = Absent THEN @ ELSE patch.instructor,
       !.start_date = IF patch.start_date = Absent THEN @ ELSE patch.start_date,
       !.end_date = IF patch.end_date = Absent THEN @ ELSE patch.end_date,
       !.total_amount = IF patch.total_amount = Absent THEN @
                        ELSE patch.total_amount]

\* the decision of update
UpdateCode(u, b, patch) ==
    IF ~Found(u, b) THEN "HTTP_404_NOT_FOUND"
    ELSE IF ~UpdateValid(patch) THEN "HTTP_400_BAD_REQUEST"
    ELSE "HTTP_200_OK"

\* PUT or PATCH /bookings/{b}/ : the generic update of ModelViewSet with
\* BookingSerializer
Update(u, b, patch) ==
    /\ last' = Response("update", u, b, UpdateCode(u, b, patch))
    /\ bookings' = IF UpdateCode(u, b, patch) = "HTTP_200_OK"
                   THEN [bookings EXCEPT ![b] = ApplyPatch(@, patch)]
                   ELSE bookings
    /\ UNCHANGED <<role, time_slots, notifications, conversations, messages, reply,
                   inflight, password, resets, clock>>

\* DELETE /bookings/{b}/ : the generic destroy of ModelViewSet
Destroy(u, b) ==
    /\ IF Found(u, b)
       THEN /\ bookings' = [bookings EXCEPT ![b] = NoRow]
            /\ last' = Response("destroy", u, b, "HTTP_204_NO_CONTENT")
       ELSE /\ bookings' = bookings
            /\ last' = Response("destroy", u, b, "HTTP_404_NOT_FOUND")
    /\ UNCHANGED <<role, time_slots, notifications, conversations, messages, reply,
                   inflight, password, resets, clock>>

\* ConfirmCode without the comparison of the instructor with the caller
ConfirmCode_NoOwnerCheck(u, b) ==
    IF ~Found(u, b) THEN "HTTP_404_NOT_FOUND" ELSE "HTTP_200_OK"

\* ConfirmCode with a status check: only a pending booking is confirmed
ConfirmCode_PendingOnly(u, b) ==
    IF ~Found(u, b) THEN "HTTP_404_NOT_FOUND"
    ELSE IF bookings[b].instructor # u THEN "HTTP_403_FORBIDDEN"
    ELSE IF bookings[b].status # "pending" THEN "HTTP_409_CONFLICT"
    ELSE "HTTP_200_OK"

\* the decision of confirm
ConfirmCode(u, b) ==
    IF ~Found(u, b) THEN "HTTP_404_NOT_FOUND"
    ELSE IF bookings[b].instructor # u THEN "HTTP_403_FORBIDDEN"
    ELSE "HTTP_200_OK"

\* POST /bookings/{b}/confirm/
Confirm(u, b) ==
    /\ last' = Response("confirm", u, b, ConfirmCode(u, b))
    /\ bookings' = IF ConfirmCode(u, b) = "HTTP_200_OK"
                   THEN [bookings EXCEPT ![b].status = "confirmed"]
                   ELSE bookings
    /\ UNCHANGED <<role, time_slots, notifications, conversations, messages, reply,
                   inflight, password, resets, clock>>

\* CancelCode without the comparison of the parties with the caller
CancelCode_NoPartyCheck(u, b) ==
    IF ~Found(u, b) THEN "HTTP_404_NOT_FOUND" ELSE "HTTP_200_OK"

\* the decision of cancel
CancelCode(u, b) ==
    IF ~Found(u, b) THEN "HTTP_404_NOT_FOUND"
    ELSE IF bookings[b].student # u /\ bookings[b].instructor # u
    THEN "HTTP_403_FORBIDDEN"
    ELSE "HTTP_200_OK"

\* POST /bookings/{b}/cancel/
Cancel(u, b) ==
    /\ last' = Response("cancel", u, b, CancelCode(u, b))
    /\ bookings' = IF CancelCode(u, b) = "HTTP_200_OK"
                   THEN [bookings EXCEPT ![b].status = "cancelled"]
                   ELSE bookings
    /\ UNCHANGED <<role, time_slots, notifications, conversations, messages, reply,
                   inflight, password, resets, clock>>

----------------------------------------------------------------------------
(* core.models.Conversation, core.models.Message *)

\* the answer to a messaging request: what was asked, by whom, about which
\* conversation, user or participant list, and the HTTP status answered
Answer(op, actor, target, code) ==
    [op |-> op, actor |-> actor, target |-> target, code |-> code]

\* Conversation.last_message_at is set to the time of every save (auto_now)
\* and only ever compared with that of other rows (Meta.ordering): a row holds
\* its rank among the rows in the order of their latest saves
NewConversation(participants, title) ==
    [participants |-> participants, title |-> title,
     last_message_at |-> Len(conversations) + 1]

\* conversation.save() on the rows T: row c becomes the latest saved
Touch(T, c) ==
    [d \in DOMAIN T |->
        IF d = c THEN [T[d] EXCEPT !.last_message_at = Len(T)]
        ELSE IF T[d].last_message_at > T[c].last_message_at
        THEN [T[d] EXCEPT !.last_message_at = @ - 1]
        ELSE T[d]]

\* f"Chat with {other_user.name}"
ChatWith(other) == "Chat with " \o other

\* Message(conversation, sender, content), is_read defaulting to false
NewMessage(conversation, sender, is_read) ==
    [conversation |-> conversation, sender |-> sender, content |-> "text",
     is_read |-> is_read]

\* row m of the rows M is a stored message, not the place of a deleted one
IsMessage(M, m) == m \in DOMAIN M /\ M[m] # NoRow

\* conversation.messages
MessagesOf(c) ==
    {m \in DOMAIN messages :
        IsMessage(messages, m) /\ messages[m].conversation = c}

----------------------------------------------------------------------------
(* core.services.MessagingService *)

\* MessagingService.create_conversation(participants, title): the row gets
\* the participants it is given, whoever calls
ServiceCreateConversation(participants) ==
    /\ conversations' = Append(conversations,
                               NewConversation(participants, ""))
    /\ last' = Answer("MessagingService.create_conversation", NoUser,
                      participants, "returned")
    /\ reply' = Len(conversations) + 1
    /\ UNCHANGED <<role, bookings, time_slots, notifications, messages,
                   inflight, password, resets, clock>>

\* MessagingService.send_message(conversation, sender, content): inserts the
\* message and saves the conversation; reads no participant list and writes
\* no read flag
ServiceSendMessage(c, sender) ==
    /\ c \in DOMAIN conversations
    /\ messages' = Append(messages, NewMessage(c, sender, FALSE))
    /\ conversations' = Touch(conversations, c)
    /\ last' = Answer("MessagingService.send_message", sender, c, "returned")
    /\ reply' = Len(messages) + 1
    /\ UNCHANGED <<role, bookings, time_slots, notifications,
                   inflight, password, resets, clock>>

----------------------------------------------------------------------------
(* core.views.ConversationViewSet *)

\* a queryset that scopes nothing
conversation_queryset_All(u) == DOMAIN conversations

\* ConversationViewSet.get_queryset: the conversations u participates in
conversation_queryset(u) ==
    {c \in DOMAIN conversations : u \in conversations[c].participants}

\* POST /conversations/ with the caller left out of the participants
CreateConversation_WithoutCreator(u, participant_ids) ==
    /\ conversations' = Append(conversations,
                               NewConversation(participant_ids \cap Users, ""))
    /\ last' = Answer("create_conversation", u, participant_ids,
                      "HTTP_201_CREATED")
    /\ reply' = Len(conversations) + 1
    /\ UNCHANGED <<role, bookings, time_slots, notifications, messages,
                   inflight, password, resets, clock>>

\* POST /conversations/ : ConversationCreateSerializer.create keeps the ids
\* that User.objects.filter(id__in=...) finds and drops the others silently;
\* perform_create then adds the caller
CreateConversation(u, participant_ids) ==
    /\ conversations' = Append(conversations,
                               NewConversation((participant_ids \cap Users)
                                               \cup {u}, ""))
    /\ last' = Answer("create_conversation", u, participant_ids,
                      "HTTP_201_CREATED")
    /\ reply' = Len(conversations) + 1
    /\ UNCHANGED <<role, bookings, time_slots, notifications, messages,
                   inflight, password, resets, clock>>

\* PATCH /conversations/{c}/ : the body writes the title; participants is
\* read-only in ConversationSerializer, whatever the body names; the save
\* renews last_message_at
UpdateConversation(u, c, title) ==
    /\ IF c \in conversation_queryset(u)
       THEN /\ conversations' =
                 Touch([conversations EXCEPT ![c].title = title], c)
            /\ last' = Answer("update_conversation", u, c, "HTTP_200_OK")
       ELSE /\ conversations' = conversations
            /\ last' = Answer("update_conversation", u, c,
                              "HTTP_404_NOT_FOUND")
    /\ UNCHANGED <<role, bookings, time_slots, notifications, messages, reply,
                   inflight, password, resets, clock>>

\* GET /conversations/{c}/messages/ : get_object answers 404 outside the
\* caller's queryset
ListMessages(u, c) ==
    /\ IF c \in conversation_queryset(u)
       THEN /\ last' = Answer("list_messages", u, c, "HTTP_200_OK")
            /\ reply' = MessagesOf(c)
       ELSE /\ last' = Answer("list_messages", u, c, "HTTP_404_NOT_FOUND")
            /\ reply' = {}
    /\ UNCHANGED <<role, bookings, time_slots, notifications, conversations,
                   messages,
                   inflight, password, resets, clock>>

\* Conversation.objects.filter(participants=a).filter(participants=b)
WithBoth(a, b) ==
    {c \in DOMAIN conversations : {a, b} \subseteq conversations[c].participants}

\* .first() under Meta.ordering = ['-last_message_at']
First(S) ==
    CHOOSE c \in S : \A d \in S :
        conversations[d].last_message_at <= conversations[c].last_message_at

\* GET /conversations/direct_chat/ that never looks for a stored conversation
DirectChat_AlwaysCreates(u, other) ==
    /\ conversations' = Append(conversations,
                               NewConversation({u, other}, ChatWith(other)))
    /\ last' = Answer("direct_chat", u, other, "HTTP_200_OK")
    /\ reply' = Len(conversations) + 1
    /\ UNCHANGED <<role, bookings, time_slots, notifications, messages,
                   inflight, password, resets, clock>>

\* GET /conversations/direct_chat/?user_id=other : 400 without user_id;
\* User.objects.get raises User.DoesNotExist, which no handler converts, for
\* an id of no user; any stored conversation holding both users is returned,
\* the latest saved first; otherwise one is created for the two
DirectChat(u, other) ==
    /\ IF other = Absent
       THEN /\ conversations' = conversations
            /\ last' = Answer("direct_chat", u, other, "HTTP_400_BAD_REQUEST")
            /\ reply' = 0
       ELSE IF other \notin Users
       THEN /\ conversations' = conversations
            /\ last' = Answer("direct_chat", u, other,
                              "HTTP_500_INTERNAL_SERVER_ERROR")
            /\ reply' = 0
       ELSE IF WithBoth(u, other) # {}
       THEN /\ conversations' = conversations
            /\ last' = Answer("direct_chat", u, other, "HTTP_200_OK")
            /\ reply' = First(WithBoth(u, other))
       ELSE /\ conversations' = Append(conversations,
                                       NewConversation({u, other},
                                                       ChatWith(other)))
            /\ last' = Answer("direct_chat", u, other, "HTTP_200_OK")
            /\ reply' = Len(conversations) + 1
    /\ UNCHANGED <<role, bookings, time_slots, notifications, messages,
                   inflight, password, resets, clock>>

----------------------------------------------------------------------------
(* core.views.MessageViewSet *)

\* a queryset that scopes nothing
message_queryset_All(u) == {m \in DOMAIN messages : IsMessage(messages, m)}

\* MessageViewSet.get_queryset: the messages of the conversations u
\* participates in
message_queryset(u) ==
    {m \in DOMAIN messages :
        /\ IsMessage(messages, m)
        /\ u \in conversations[messages[m].conversation].participants}

\* GET /messages/ : the rows of the caller's queryset
MessageList(u) ==
    /\ last' = Answer("messages", u, 0, "HTTP_200_OK")
    /\ reply' = message_queryset(u)
    /\ UNCHANGED <<role, bookings, time_slots, notifications, conversations,
                   messages,
                   inflight, password, resets, clock>>

\* the update of perform_create without .exclude(sender=...)
MarkRead_All(M, c, u) ==
    [m \in DOMAIN M |->
        IF IsMessage(M, m) /\ M[m].conversation = c /\ ~M[m].is_read
        THEN [M[m] EXCEPT !.is_read = TRUE] ELSE M[m]]

\* conversation.messages.filter(is_read=False).exclude(sender=u)
\*     .update(is_read=True) on the rows M
MarkRead(M, c, u) ==
    [m \in DOMAIN M |->
        IF /\ IsMessage(M, m)
           /\ M[m].conversation = c /\ ~M[m].is_read /\ M[m].sender # u
        THEN [M[m] EXCEPT !.is_read = TRUE] ELSE M[m]]

\* POST /messages/ : MessageSerializer answers 400 for a conversation key of no
\* row and accepts is_read from the body; perform_create stores the message
\* for the caller, participant or not, marks the unread messages of the others
\* in that conversation as read and saves the conversation
SendMessage(u, c, is_read) ==
    /\ IF c \notin DOMAIN conversations
       THEN /\ messages' = messages
            /\ conversations' = conversations
            /\ last' = Answer("send_message", u, c, "HTTP_400_BAD_REQUEST")
            /\ reply' = 0
       ELSE /\ messages' = MarkRead(Append(messages,
                                           NewMessage(c, u, is_read)), c, u)
            /\ conversations' = Touch(conversations, c)
            /\ last' = Answer("send_message", u, c, "HTTP_201_CREATED")
            /\ reply' = Len(messages) + 1
    /\ UNCHANGED <<role, bookings, time_slots, notifications,
                   inflight, password, resets, clock>>

\* the fields of a Message row a PATCH body writes: sender is read-only
ApplyMessagePatch(row, patch) ==
    [f \in DOMAIN row |->
        IF f \in {"conversation", "content", "is_read"} \cap DOMAIN patch
        THEN patch[f] ELSE row[f]]

\* PATCH /messages/{m}/ : get_object answers 404 outside the caller's
\* queryset, MessageSerializer 400 for a conversation key of no row; any
\* participant of the message's conversation passes, sender or not
UpdateMessage(u, m, patch) ==
    /\ IF m \notin message_queryset(u)
       THEN /\ messages' = messages
            /\ last' = Answer("update_message", u, m, "HTTP_404_NOT_FOUND")
       ELSE IF /\ "conversation" \in DOMAIN patch
               /\ patch.conversation \notin DOMAIN conversations
       THEN /\ messages' = messages
            /\ last' = Answer("update_message", u, m, "HTTP_400_BAD_REQUEST")
       ELSE /\ messages' = [messages EXCEPT
                               ![m] = ApplyMessagePatch(messages[m], patch)]
            /\ last' = Answer("update_message", u, m, "HTTP_200_OK")
    /\ UNCHANGED <<role, bookings, time_slots, notifications, conversations,
                   reply, inflight, password, resets, clock>>

\* DELETE /messages/{m}/
DestroyMessage(u, m) ==
    /\ IF m \in message_queryset(u)
       THEN /\ messages' = [messages EXCEPT ![m] = NoRow]
            /\ last' = Answer("destroy_message", u, m, "HTTP_204_NO_CONTENT")
       ELSE /\ messages' = messages
            /\ last' = Answer("destroy_message", u, m, "HTTP_404_NOT_FOUND")
    /\ UNCHANGED <<role, bookings, time_slots, notifications, conversations,
                   reply, inflight, password, resets, clock>>

----------------------------------------------------------------------------
(* core.views.NotificationViewSet *)

IsNotification(n) == n \in DOMAIN notifications /\ notifications[n] # NoRow

\* NotificationViewSet.get_queryset: the notifications of u
notification_queryset(u) ==
    {n \in DOMAIN notifications :
        IsNotification(n) /\ notifications[n].user = u}

\* NotificationService.send_notification(user, 'system', ...) called for u
Notify(u) ==
    /\ notifications' = send_notification(u, "system", "System", 0)
    /\ last' = Answer("send_notification", NoUser, u, "returned")
    /\ reply' = Len(notifications) + 1
    /\ UNCHANGED <<role, bookings, time_slots, conversations, messages,
                   inflight, password, resets, clock>>

\* POST /notifications/ : perform_create stores the row for the caller
CreateNotification(u) ==
    /\ notifications' = send_notification(u, "system", "System", 0)
    /\ last' = Answer("create_notification", u, 0, "HTTP_201_CREATED")
    /\ reply' = Len(notifications) + 1
    /\ UNCHANGED <<role, bookings, time_slots, conversations, messages,
                   inflight, password, resets, clock>>

\* Notification.objects.filter(id__in=ids) with the owner never looked at
Listed_AnyOwner(u, ids) == {n \in ids : IsNotification(n)}

\* Notification.objects.filter(id__in=ids, user=u)
Listed(u, ids) == ids \cap notification_queryset(u)

\* POST /notifications/mark_read/ that answers 404 for an id outside the
\* caller's notifications
mark_read_Strict(u, ids) ==
    /\ IF ids \subseteq notification_queryset(u)
       THEN /\ notifications' =
                 [n \in DOMAIN notifications |->
                     IF n \in ids
                     THEN [notifications[n] EXCEPT !.is_read = TRUE]
                     ELSE notifications[n]]
            /\ last' = Answer("mark_read", u, ids, "HTTP_200_OK")
            /\ reply' = [status |-> "notifications marked as read"]
       ELSE /\ notifications' = notifications
            /\ last' = Answer("mark_read", u, ids, "HTTP_404_NOT_FOUND")
            /\ reply' = [error |-> "not found"]
    /\ UNCHANGED <<role, bookings, time_slots, conversations, messages,
                   inflight, password, resets, clock>>

\* POST /notifications/mark_read/ with notification_ids = ids: the rows of the
\* caller among ids are updated to is_read = True, already read or not; the
\* count that update() returns is dropped and the body is a fixed status
mark_read(u, ids) ==
    /\ notifications' =
          [n \in DOMAIN notifications |->
              IF n \in Listed(u, ids)
              THEN [notifications[n] EXCEPT !.is_read = TRUE]
              ELSE notifications[n]]
    /\ last' = Answer("mark_read", u, ids, "HTTP_200_OK")
    /\ reply' = [status |-> "notifications marked as read"]
    /\ UNCHANGED <<role, bookings, time_slots, conversations, messages,
                   inflight, password, resets, clock>>

\* POST /notifications/mark_read/ without notification_ids:
\* MarkNotificationsReadSerializer answers 400
mark_read_invalid(u) ==
    /\ last' = Answer("mark_read_invalid", u, {}, "HTTP_400_BAD_REQUEST")
    /\ reply' = [notification_ids |-> "This field is required."]
    /\ UNCHANGED <<role, bookings, time_slots, notifications, conversations,
                   messages, inflight, password, resets, clock>>

\* get_queryset().filter(is_read=False).count() on the rows N
UnreadOf(N, u) ==
    Cardinality({n \in DOMAIN N :
                    N[n] # NoRow /\ N[n].user = u /\ ~N[n].is_read})

\* GET /notifications/unread_count/
unread_count(u) ==
    /\ last' = Answer("unread_count", u, 0, "HTTP_200_OK")
    /\ reply' = [unread_count |-> UnreadOf(notifications, u)]
    /\ UNCHANGED <<role, bookings, time_slots, notifications, conversations,
                   messages, inflight, password, resets, clock>>

\* the fields of a Notification row a PATCH body writes: user is read-only
ApplyNotificationPatch(row, patch) ==
    [f \in DOMAIN row |->
        IF f \in {"title", "is_read", "notification_type"} \cap DOMAIN patch
        THEN patch[f] ELSE row[f]]

\* PATCH /notifications/{n}/ : get_object answers 404 outside the caller's
\* queryset
UpdateNotification(u, n, patch) ==
    /\ IF n \in notification_queryset(u)
       THEN /\ notifications' =
                 [notifications EXCEPT
                     ![n] = ApplyNotificationPatch(notifications[n], patch)]
            /\ last' = Answer("update_notification", u, n, "HTTP_200_OK")
       ELSE /\ notifications' = notifications
            /\ last' = Answer("update_notification", u, n,
                              "HTTP_404_NOT_FOUND")
    /\ UNCHANGED <<role, bookings, time_slots, conversations, messages, reply,
                   inflight, password, resets, clock>>

\* DELETE /notifications/{n}/
DestroyNotification(u, n) ==
    /\ IF n \in notification_queryset(u)
       THEN /\ notifications' = [notifications EXCEPT ![n] = NoRow]
            /\ last' = Answer("destroy_notification", u, n,
                              "HTTP_204_NO_CONTENT")
       ELSE /\ notifications' = notifications
            /\ last' = Answer("destroy_notification", u, n,
                              "HTTP_404_NOT_FOUND")
    /\ UNCHANGED <<role, bookings, time_slots, conversations, messages, reply,
                   inflight, password, resets, clock>>

----------------------------------------------------------------------------
(* core.views.login_view, core.views.UserProfileView *)

\* the answer to a login: the email and password sent, and the HTTP status
LoginAnswer(email, pw, code) ==
    [op |-> "login", actor |-> NoUser, target |-> email, password |-> pw,
     code |-> code]

\* LoginSerializer.is_valid(): both fields are there and authenticate finds
\* the user whose password this is (a disabled account is refused like a
\* wrong password)
CredentialsValid(email, pw) ==
    /\ email # Absent
    /\ pw # Absent
    /\ email \in Users
    /\ password[email] = pw

\* POST /login/ : user is bound under "if serializer.is_valid()" only, and
\* the line after it, RefreshToken.for_user(user), runs in either case: with
\* credentials that fail validation it raises UnboundLocalError, which no
\* handler converts; the 400 answer at the end of the function is never
\* reached
login_view(email, pw) ==
    /\ IF CredentialsValid(email, pw)
       THEN /\ last' = LoginAnswer(email, pw, "HTTP_200_OK")
            /\ reply' = [user |-> email, refresh |-> email, access |-> email]
       ELSE /\ last' = LoginAnswer(email, pw, "HTTP_500_INTERNAL_SERVER_ERROR")
            /\ reply' = [error |-> "UnboundLocalError"]
    /\ UNCHANGED <<role, bookings, time_slots, notifications, conversations,
                   messages, inflight, password, resets, clock>>

\* a role string that is not among the choices
BadRole == "OWNER"

\* PATCH /profile/ : get_object is the caller; UserSerializer makes id and
\* date_joined read-only and nothing else, so a body's role is written after
\* the choices of the field are checked
UpdateProfile(u, patch) ==
    /\ IF "role" \in DOMAIN patch /\ patch.role \notin Roles
       THEN /\ role' = role
            /\ last' = Answer("update_profile", u, patch, "HTTP_400_BAD_REQUEST")
       ELSE /\ role' = IF "role" \in DOMAIN patch
                       THEN [role EXCEPT ![u] = patch.role] ELSE role
            /\ last' = Answer("update_profile", u, patch, "HTTP_200_OK")
    /\ reply' = [role |-> role'[u]]
    /\ UNCHANGED <<bookings, time_slots, notifications, conversations,
                   messages, inflight, password, resets, clock>>

----------------------------------------------------------------------------
(* Requests served by several workers at once: nothing in the views takes a *)
(* lock or opens a transaction, so every query of a view is a step of its   *)
(* own and the steps of two requests interleave                             *)

\* what a worker holds between two queries of a view: the request, and the
\* row its last query gave (0 for none)
Request(op, actor, other, row) ==
    [op |-> op, actor |-> actor, other |-> other, row |-> row]

\* direct_chat, first query: Conversation.objects.filter(participants=user)
\*     .filter(participants=other_user).first()
LookUpDirect(w, u, other) ==
    /\ inflight[w].op = "idle"
    /\ inflight' = [inflight EXCEPT
                      ![w] = Request("direct_chat", u, other,
                                     IF WithBoth(u, other) # {}
                                     THEN First(WithBoth(u, other)) ELSE 0)]
    /\ UNCHANGED <<role, bookings, time_slots, notifications, conversations,
                   messages, last, reply, password, resets, clock>>

\* direct_chat, after the lookup: if not conversation, create one and set its
\* participants; the serialized conversation is the answer
CreateDirect(w) ==
    /\ inflight[w].op = "direct_chat"
    /\ IF inflight[w].row = 0
       THEN /\ conversations' =
                   Append(conversations,
                          NewConversation({inflight[w].actor, inflight[w].other},
                                          ChatWith(inflight[w].other)))
            /\ inflight' = [inflight EXCEPT
                              ![w] = Request("answered", @.actor, @.other,
                                             Len(conversations) + 1)]
       ELSE /\ conversations' = conversations
            /\ inflight' = [inflight EXCEPT ![w].op = "answered"]
    /\ UNCHANGED <<role, bookings, time_slots, notifications, messages,
                   last, reply, password, resets, clock>>

\* direct_chat: return Response(serializer.data)
RespondDirect(w) ==
    /\ inflight[w].op = "answered"
    /\ last' = Answer("direct_chat", inflight[w].actor, inflight[w].other,
                      "HTTP_200_OK")
    /\ reply' = inflight[w].row
    /\ inflight' = [inflight EXCEPT ![w] = Idle[w]]
    /\ UNCHANGED <<role, bookings, time_slots, notifications, conversations,
                   messages, password, resets, clock>>

\* MessageViewSet.perform_create, first query:
\*     message = serializer.save(sender=request.user)
CreateMessage(w, u, c) ==
    /\ inflight[w].op = "idle"
    /\ c \in DOMAIN conversations
    /\ messages' = Append(messages, NewMessage(c, u, FALSE))
    /\ inflight' = [inflight EXCEPT
                      ![w] = Request("send_message", u, NoUser, c)]
    /\ UNCHANGED <<role, bookings, time_slots, notifications, conversations,
                   last, reply, password, resets, clock>>

\* MessageViewSet.perform_create, after the insert: the unread messages of
\* the other senders in the conversation are marked read, the conversation is
\* saved and 201 is answered
MarkOthersRead(w) ==
    /\ inflight[w].op = "send_message"
    /\ messages' = MarkRead(messages, inflight[w].row, inflight[w].actor)
    /\ conversations' = Touch(conversations, inflight[w].row)
    /\ last' = Answer("send_message", inflight[w].actor, inflight[w].row,
                      "HTTP_201_CREATED")
    /\ reply' = inflight[w].row
    /\ inflight' = [inflight EXCEPT ![w] = Idle[w]]
    /\ UNCHANGED <<role, bookings, time_slots, notifications, password,
                   resets, clock>>

----------------------------------------------------------------------------
(* apps.users: forgot_password, reset_password *)

\* send_password_reset_email: expires_at = datetime.now() + timedelta(hours=1)
ResetHours == 1

\* PasswordReset(user, token, expires_at), is_used defaulting to false; the
\* token is the key of the row
NewPasswordReset(user) ==
    [user |-> user, expires_at |-> clock + ResetHours, is_used |-> FALSE]

\* the answer to a reset: the token and password sent, and the HTTP status
ResetAnswer(token, new_password, code) ==
    [op |-> "reset_password", actor |-> NoUser, target |-> token,
     new_password |-> new_password, code |-> code]

\* POST /forgot-password/ : 404 for an email of no user; otherwise
\* send_password_reset_email stores a fresh token that expires in an hour
forgot_password(email) ==
    /\ IF email \in Users
       THEN /\ resets' = Append(resets, NewPasswordReset(email))
            /\ last' = Answer("forgot_password", NoUser, email, "HTTP_200_OK")
       ELSE /\ resets' = resets
            /\ last' = Answer("forgot_password", NoUser, email,
                              "HTTP_404_NOT_FOUND")
    /\ UNCHANGED <<role, bookings, time_slots, notifications, conversations,
                   messages, reply, inflight, password, clock>>

\* PasswordReset.objects.get(token=token, is_used=False,
\*                           expires_at__gt=datetime.now()) finds a row
Redeemable(token) ==
    /\ token \in DOMAIN resets
    /\ ~resets[token].is_used
    /\ resets[token].expires_at > clock

\* validate_password(new_password, user) raises ValidationError
Rejected(new_password) == new_password = "weak"

\* POST /reset-password/ that leaves the token unused
reset_password_KeepsToken(token, new_password) ==
    /\ IF ~Redeemable(token) \/ Rejected(new_password)
       THEN /\ password' = password
            /\ last' = ResetAnswer(token, new_password, "HTTP_400_BAD_REQUEST")
       ELSE /\ password' = [password EXCEPT
                               ![resets[token].user] = new_password]
            /\ last' = ResetAnswer(token, new_password, "HTTP_200_OK")
    /\ resets' = resets
    /\ UNCHANGED <<role, bookings, time_slots, notifications, conversations,
                   messages, reply, inflight, clock>>

\* POST /reset-password/ : 400 when no unused, unexpired row has the token
\* and when the password is rejected; otherwise the user's password is set
\* and the row is marked used
reset_password(token, new_password) ==
    /\ IF ~Redeemable(token) \/ Rejected(new_password)
       THEN /\ password' = password
            /\ resets' = resets
            /\ last' = ResetAnswer(token, new_password, "HTTP_400_BAD_REQUEST")
       ELSE /\ password' = [password EXCEPT
                               ![resets[token].user] = new_password]
            /\ resets' = [resets EXCEPT ![token].is_used = TRUE]
            /\ last' = ResetAnswer(token, new_password, "HTTP_200_OK")
    /\ UNCHANGED <<role, bookings, time_slots, notifications, conversations,
                   messages, reply, inflight, clock>>

\* an hour passes
Tick ==
    /\ clock' = clock + 1
    /\ UNCHANGED <<role, bookings, time_slots, notifications, conversations,
                   messages, last, reply, inflight, password, resets>>

----------------------------------------------------------------------------
(* The users *)

\* one registered user of each role
UserRoles == [u \in Users |->
    IF u = "u1" THEN "STUDENT" ELSE IF u = "u2" THEN "INSTRUCTOR" ELSE "ADMIN"]

Init ==
    /\ role = UserRoles
    /\ bookings = <<>>
    /\ time_slots = <<>>
    /\ notifications = <<>>
    /\ conversations = <<>>
    /\ messages = <<>>
    /\ last = Response("none", NoUser, 0, "none")
    /\ reply = {}
    /\ inflight = Idle
    /\ password = [u \in Users |-> "old"]
    /\ resets = <<>>
    /\ clock = 0

----------------------------------------------------------------------------
(* The life of a booking: every user books every user, and every user sends *)
(* every request on the booking                                             *)

\* creation requests with a well-formed interval and amount
LifeRequests ==
    [instructor : Users \cup {NoUser}, start_date : {1}, end_date : {2},
     total_amount : {1}, status : STATUS_CHOICES \cup {Absent}]

\* partial updates that carry a status, or an instructor
LifePatches ==
    [status : STATUS_CHOICES \cup {BadStatus}, instructor : {Absent},
     start_date : {Absent}, end_date : {Absent}, total_amount : {Absent}]
    \cup
    [status : {Absent}, instructor : Users \cup {NoUser},
     start_date : {Absent}, end_date : {Absent}, total_amount : {Absent}]

Next ==
    \/ \E u \in Users, req \in LifeRequests :
          Len(bookings) < MaxBookings /\ ApiCreate(u, req)
    \/ \E u \in Users, b \in LifeIds : Confirm(u, b)
    \/ \E u \in Users, b \in LifeIds : Cancel(u, b)
    \/ \E u \in Users, b \in LifeIds, patch \in LifePatches :
          Update(u, b, patch)
    \/ \E u \in Users, b \in LifeIds : Destroy(u, b)

Spec == Init /\ [][Next]_vars

----------------------------------------------------------------------------
(* Creation: the student books the instructor with every interval and      *)
(* amount, through the endpoint and through the service, with and without  *)
(* a published time slot                                                   *)

CreateRequests ==
    [instructor : {"u2", NoUser}, start_date : Times, end_date : Times,
     total_amount : Amounts, status : {"confirmed", Absent}]

CreateNext ==
    \/ \E req \in CreateRequests :
          Len(bookings) < MaxCreated /\ ApiCreate("u1", req)
    \/ \E s, e \in Times, a \in Amounts :
          Len(bookings) < MaxCreated /\ ServiceCreate("u1", "u2", s, e, a)
    \/ \E u \in Users :
          Len(time_slots) < MaxSlots /\ PublishSlot(u, 1, 2)
    \/ \E b \in CreateIds : Confirm("u2", b)

CreateSpec == Init /\ [][CreateNext]_vars

----------------------------------------------------------------------------
(* Availability: every user publishes every interval, rewrites the slot and *)
(* lists the slots at every time; the users are one of each role, or two    *)
(* instructors and a student                                                *)

TwoInstructors == [u \in Users |->
    IF u = "u3" THEN "STUDENT" ELSE "INSTRUCTOR"]

SlotIds == 1..(MaxSlots + 1)

\* PATCH bodies, each carrying one field
SlotPatches ==
    {[start_time |-> s] : s \in Times}
    \cup {[end_time |-> e] : e \in Times}
    \cup {[is_available |-> a] : a \in BOOLEAN}

SlotInit ==
    /\ role \in {UserRoles, TwoInstructors}
    /\ bookings = <<>>
    /\ time_slots = <<>>
    /\ notifications = <<>>
    /\ conversations = <<>>
    /\ messages = <<>>
    /\ last = Response("none", NoUser, 0, "none")
    /\ reply = {}
    /\ inflight = Idle
    /\ password = [u \in Users |-> "old"]
    /\ resets = <<>>
    /\ clock = 0

SlotNext ==
    \/ \E u \in Users, start \in Times, end \in Times :
          /\ Len(time_slots) < MaxSlots \/ role[u] # "INSTRUCTOR"
          /\ PublishSlot(u, start, end)
    \/ \E u \in Users, t \in SlotIds, patch \in SlotPatches, now \in Times :
          UpdateSlot(u, t, patch, now)
    \/ \E u \in Users, now \in Times : ListSlots(u, now)

SlotSpec == SlotInit /\ [][SlotNext]_vars

----------------------------------------------------------------------------
(* Messages: two users open a conversation, and every user sends into,     *)
(* lists and reads every conversation                                      *)

ConversationIds == 1..(MaxConversations + 1)

MessageNext ==
    \/ /\ Len(conversations) < MaxConversations
       /\ \/ CreateConversation("u1", {"u2"})
          \/ CreateConversation("u2", {"u3"})
    \/ \E u \in Users, c \in ConversationIds, is_read \in BOOLEAN :
          /\ Len(messages) < MaxMessages
          /\ SendMessage(u, c, is_read)
    \/ \E u \in Users, c \in DOMAIN conversations :
          /\ Len(messages) < MaxMessages
          /\ ServiceSendMessage(c, u)
    \/ \E u \in Users, c \in ConversationIds : ListMessages(u, c)
    \/ \E u \in Users : MessageList(u)

MessageSpec == Init /\ [][MessageNext]_vars

----------------------------------------------------------------------------
(* Conversations: every user opens conversations with every participant    *)
(* list, asks for a direct chat with every user, and renames               *)

\* participant_ids of a POST body; NoUser is the key of no user
ParticipantLists == SUBSET {"u2", "u3", NoUser}

\* the title of a PATCH body
Renamed == "renamed"

ConversationNext ==
    \/ \E u \in Users, participant_ids \in ParticipantLists :
          /\ Len(conversations) < MaxConversations
          /\ CreateConversation(u, participant_ids)
    \/ \E participants \in SUBSET Users :
          /\ Len(conversations) < MaxConversations
          /\ ServiceCreateConversation(participants)
    \/ \E u \in Users, other \in Users \cup {NoUser, Absent} :
          /\ (other \in Users /\ WithBoth(u, other) = {})
                => Len(conversations) < MaxConversations
          /\ DirectChat(u, other)
    \/ \E u \in Users, c \in ConversationIds : UpdateConversation(u, c, Renamed)

ConversationSpec == Init /\ [][ConversationNext]_vars

----------------------------------------------------------------------------
(* Notifications: two users are notified, and each marks lists of ids as   *)
(* read, counts, rewrites and deletes                                      *)

NotificationIds == 1..(MaxNotifications + 1)

\* PATCH bodies, each carrying one field
NotificationPatches == {[is_read |-> FALSE], [title |-> "renamed"]}

\* notification_ids of a POST body: one id, or every id
IdLists == {{n} : n \in NotificationIds} \cup {NotificationIds}

\* the users who are notified and who ask
Notified == {"u1", "u2"}

NotificationNext ==
    \/ \E u \in Notified :
          Len(notifications) < MaxNotifications /\ Notify(u)
    \/ Len(notifications) < MaxNotifications /\ CreateNotification("u1")
    \/ \E u \in Notified, ids \in IdLists : mark_read(u, ids)
    \/ mark_read_invalid("u1")
    \/ \E u \in Notified : unread_count(u)
    \/ \E u \in Notified, n \in NotificationIds,
          patch \in NotificationPatches : UpdateNotification(u, n, patch)
    \/ \E u \in Notified, n \in NotificationIds : DestroyNotification(u, n)

NotificationSpec == Init /\ [][NotificationNext]_vars

----------------------------------------------------------------------------
(* Stored messages: a user opens conversations with another, every user    *)
(* sends, and every user rewrites and deletes every message                *)

\* Message rows ever inserted while rewriting and deleting are followed
MaxEdited == MaxMessages - 1

MessageIds == 1..(MaxEdited + 1)

\* PATCH bodies, each carrying one field
MessagePatches ==
    {[content |-> "edited"], [is_read |-> FALSE]}
    \cup {[conversation |-> c] : c \in ConversationIds}

EditNext ==
    \/ /\ Len(conversations) < MaxConversations
       /\ CreateConversation("u1", {"u2"})
    \/ \E u \in Users, c \in DOMAIN conversations :
          /\ Len(messages) < MaxEdited
          /\ SendMessage(u, c, FALSE)
    \/ \E u \in Users, m \in MessageIds, patch \in MessagePatches :
          UpdateMessage(u, m, patch)
    \/ \E u \in Users, m \in MessageIds : DestroyMessage(u, m)

EditSpec == Init /\ [][EditNext]_vars

----------------------------------------------------------------------------
(* Accounts: every login is tried and every user rewrites their profile    *)

Emails == Users \cup {NoUser, Absent}

Passwords == {"old", "wrong", Absent}

ProfilePatches == {[role |-> r] : r \in Roles \cup {BadRole}}
                  \cup {[name |-> "renamed"]}

AccountNext ==
    \/ \E email \in Emails, pw \in Passwords : login_view(email, pw)
    \/ \E u \in Users, patch \in ProfilePatches : UpdateProfile(u, patch)

AccountSpec == Init /\ [][AccountNext]_vars

----------------------------------------------------------------------------
(* Concurrent requests: u1 and u2 open their direct chat and send messages *)
(* to it, each request on a worker of its own                              *)

Pair == {"u1", "u2"}

RaceNext ==
    \/ \E w \in Workers, u \in Pair, other \in Pair :
          u # other /\ LookUpDirect(w, u, other)
    \/ \E w \in Workers : CreateDirect(w)
    \/ \E w \in Workers : RespondDirect(w)
    \/ \E w \in Workers, u \in Pair, c \in DOMAIN conversations :
          /\ Len(messages) < MaxMessages
          /\ CreateMessage(w, u, c)
    \/ \E w \in Workers : MarkOthersRead(w)

RaceSpec == Init /\ [][RaceNext]_vars

----------------------------------------------------------------------------
(* Password resets: two users ask for tokens, every token is redeemed with *)
(* every password, and hours pass                                          *)

Tokens == 1..(MaxResets + 1)

NewPasswords == {"new", "newer", "weak"}

ResetNext ==
    \/ \E email \in {"u1", "u2", NoUser} :
          /\ Len(resets) < MaxResets \/ email \notin Users
          /\ forgot_password(email)
    \/ \E token \in Tokens, new_password \in NewPasswords :
          reset_password(token, new_password)
    \/ clock < MaxClock /\ Tick

ResetSpec == Init /\ [][ResetNext]_vars

----------------------------------------------------------------------------
(* Properties of confirm and cancel *)

\* the row the latest request addressed
LastRow == bookings[last.booking]

\* what the queryset of u holds of row b, read off the row and the role of u
Visible(u, b) ==
    \/ role[u] = "STUDENT" /\ bookings[b].student = u
    \/ role[u] = "INSTRUCTOR" /\ bookings[b].instructor = u
    \/ role[u] \notin {"STUDENT", "INSTRUCTOR"}

\* C1 as stated: confirm by an actor other than the booking's instructor is
\* always answered 'Not authorized' (403) and leaves the status as it was.
C1_AlwaysNotAuthorized ==
    (/\ last.op = "confirm"
     /\ IsBooking(last.booking)
     /\ last.actor # LastRow.instructor)
    => (last.code = "HTTP_403_FORBIDDEN" /\ LastRow.status = last.was)

\* C1 as amended: confirm by an actor other than the booking's instructor
\* always fails and leaves the status as it was; the answer is 'Not
\* authorized' (403) when the booking is in the actor's queryset and Not Found
\* (404) when it is not.
C1_ConfirmByNonInstructorFails ==
    (/\ last.op = "confirm"
     /\ IsBooking(last.booking)
     /\ last.actor # LastRow.instructor)
    => /\ last.code = IF Visible(last.actor, last.booking)
                      THEN "HTTP_403_FORBIDDEN" ELSE "HTTP_404_NOT_FOUND"
       /\ LastRow.status = last.was

\* a confirm by a student who is not on the booking was answered Not Found
C1_Witness ==
    /\ last.op = "confirm"
    /\ IsBooking(last.booking)
    /\ last.actor \notin {LastRow.instructor, LastRow.student}
    /\ role[last.actor] = "STUDENT"
    /\ last.code = "HTTP_404_NOT_FOUND"
    /\ LastRow.status = "cancelled"

\* C2 as stated: cancel by the booking's student or instructor always succeeds
\* and leaves the booking cancelled, whatever the caller's role.
C2_PartyCancelSucceeds ==
    [][\A u \in Users, b \in LifeIds :
         (/\ IsBooking(b)
          /\ u \in {bookings[b].student, bookings[b].instructor}
          /\ Cancel(u, b))
         => (last'.code = "HTTP_200_OK" /\ bookings'[b].status = "cancelled")]_vars

\* C3 as stated: cancel by a user who is neither the student nor the
\* instructor is always answered 'Not authorized' (403) and leaves the status
\* as it was.
C3_AlwaysNotAuthorized ==
    (/\ last.op = "cancel"
     /\ IsBooking(last.booking)
     /\ last.actor \notin {LastRow.student, LastRow.instructor})
    => (last.code = "HTTP_403_FORBIDDEN" /\ LastRow.status = last.was)

\* C3 as amended: cancel by a user who is neither the student nor the
\* instructor always fails and leaves the status as it was; the answer is Not
\* Found (404) for a user with the student or instructor role, whose queryset
\* does not hold the booking, and 'Not authorized' (403) for any other role.
C3_CancelByStrangerFails ==
    (/\ last.op = "cancel"
     /\ IsBooking(last.booking)
     /\ last.actor \notin {LastRow.student, LastRow.instructor})
    => /\ last.code = IF role[last.actor] \in {"STUDENT", "INSTRUCTOR"}
                      THEN "HTTP_404_NOT_FOUND" ELSE "HTTP_403_FORBIDDEN"
       /\ LastRow.status = last.was

\* a cancel by an instructor who is not on the booking was answered Not Found
C3_Witness ==
    /\ last.op = "cancel"
    /\ IsBooking(last.booking)
    /\ last.actor \notin {LastRow.student, LastRow.instructor}
    /\ role[last.actor] = "INSTRUCTOR"
    /\ last.code = "HTTP_404_NOT_FOUND"
    /\ LastRow.status = "pending"

----------------------------------------------------------------------------
(* Properties of the status of a booking *)

\* C4 as stated: a booking whose status is cancelled or completed never
\* changes status again, and confirm on a booking that is not pending fails
\* and leaves the status as it was.
C4_TerminalIsFinal ==
    [][/\ \A b \in LifeIds :
            (IsBooking(b) /\ bookings[b].status \in {"cancelled", "completed"}
               /\ IsBooking(b)')
            => bookings'[b].status = bookings[b].status
       /\ \A u \in Users, b \in LifeIds :
            (IsBooking(b) /\ bookings[b].status # "pending" /\ Confirm(u, b))
            => (last'.code # "HTTP_200_OK" /\ bookings' = bookings)]_vars

\* C4 as amended: cancelled and completed are not final. Confirm does not read
\* the status: sent by the booking's instructor, with the booking in that
\* user's queryset, it succeeds from every status and leaves the booking
\* confirmed.
C4_ConfirmFromAnyStatus ==
    (/\ last.op = "confirm"
     /\ IsBooking(last.booking)
     /\ last.actor = LastRow.instructor
     /\ Visible(last.actor, last.booking))
    => (last.code = "HTTP_200_OK" /\ LastRow.status = "confirmed")

\* the instructor confirmed a booking that was cancelled
C4_Witness ==
    /\ last.op = "confirm"
    /\ last.was = "cancelled"
    /\ last.code = "HTTP_200_OK"
    /\ IsBooking(last.booking)
    /\ last.actor = LastRow.instructor
    /\ LastRow.status = "confirmed"

\* C5 as stated: every step in which the status of a booking becomes
\* confirmed is a request of that booking's instructor.
C5_OnlyInstructorConfirms ==
    [][\A b \in LifeIds :
         (/\ IsBooking(b)
          /\ bookings[b].status # "confirmed"
          /\ IsBooking(b)'
          /\ bookings'[b].status = "confirmed")
         => last'.actor = bookings[b].instructor]_vars

\* C6 as stated: no booking ever has the status completed.
C6_NeverCompleted ==
    \A b \in DOMAIN bookings : IsBooking(b) => bookings[b].status # "completed"

----------------------------------------------------------------------------
(* Properties of creation *)

\* a request or call whose interval is not empty and whose amount is not
\* negative
WellFormed(start, end, amount) == start < end /\ amount >= 0

\* C7: right after a successful creation, through the endpoint or through the
\* service, the new booking is pending, whatever the request carried.
C7_CreatedPending ==
    (/\ last.op \in {"create", "create_booking"}
     /\ last.code \in {"HTTP_201_CREATED", "returned"})
    => /\ last.booking = Len(bookings)
       /\ IsBooking(last.booking)
       /\ LastRow.status = "pending"

\* the endpoint created a second booking, pending beside a confirmed one
C7_Witness ==
    /\ last.op = "create"
    /\ last.code = "HTTP_201_CREATED"
    /\ last.booking = 2
    /\ bookings[2].status = "pending"
    /\ bookings[1].status = "confirmed"

\* C8 as stated: a creation with start >= end or amount < 0 fails with a
\* validation error and inserts neither a booking nor a notification.
C8_IllFormedRejected ==
    [][/\ \A req \in CreateRequests :
            (/\ ~WellFormed(req.start_date, req.end_date, req.total_amount)
             /\ ApiCreate("u1", req))
            => /\ last'.code = "HTTP_400_BAD_REQUEST"
               /\ bookings' = bookings
               /\ notifications' = notifications
       /\ \A s \in Times, e \in Times, a \in Amounts :
            (~WellFormed(s, e, a) /\ ServiceCreate("u1", "u2", s, e, a))
            => (bookings' = bookings /\ notifications' = notifications)]_vars

\* C9 as stated: every stored booking has a notification of type booking for
\* its instructor.
C9_EveryBookingNotified ==
    \A b \in DOMAIN bookings :
        IsBooking(b) =>
            \E n \in DOMAIN notifications :
                /\ notifications[n].notification_type = "booking"
                /\ notifications[n].user = bookings[b].instructor
                /\ notifications[n].related_object_id = b

\* C10: a well-formed creation succeeds in every state: neither the time
\* slots nor the bookings already stored are consulted.
C10_CreateIgnoresSlotsAndBookings ==
    [][/\ \A req \in CreateRequests :
            (/\ req.instructor \in Users
             /\ WellFormed(req.start_date, req.end_date, req.total_amount)
             /\ ApiCreate("u1", req))
            => /\ last'.code = "HTTP_201_CREATED"
               /\ Len(bookings') = Len(bookings) + 1
       /\ \A s \in Times, e \in Times, a \in Amounts :
            (WellFormed(s, e, a) /\ ServiceCreate("u1", "u2", s, e, a))
            => Len(bookings') = Len(bookings) + 1]_vars

\* two confirmed bookings of one instructor overlap, and that instructor has
\* published no slot
C10_Witness ==
    \E b1, b2 \in DOMAIN bookings :
        /\ b1 < b2
        /\ IsBooking(b1) /\ IsBooking(b2)
        /\ bookings[b1].instructor = bookings[b2].instructor
        /\ bookings[b1].status = "confirmed" /\ bookings[b2].status = "confirmed"
        /\ bookings[b1].start_date < bookings[b1].end_date
        /\ bookings[b2].start_date < bookings[b2].end_date
        /\ Overlap(bookings[b1].start_date, bookings[b1].end_date,
                   bookings[b2].start_date, bookings[b2].end_date)
        /\ bookings[b1].total_amount >= 0 /\ bookings[b2].total_amount >= 0
        /\ \A t \in DOMAIN time_slots :
               time_slots[t].instructor # bookings[b1].instructor

----------------------------------------------------------------------------
(* Properties of availability *)

\* the slots a listing at the time now calls available
AvailableAt(now) ==
    {t \in DOMAIN time_slots :
        time_slots[t].is_available /\ time_slots[t].start_time >= now}

OwnSlots(u) == {t \in DOMAIN time_slots : time_slots[t].instructor = u}

\* C11: publish_slot by an instructor is refused when start >= end, so that
\* every stored TimeSlot satisfies start < end.
C11_SlotIntervalValid ==
    \A t \in DOMAIN time_slots :
        time_slots[t].start_time < time_slots[t].end_time

C13_EveryCallerSeesAvailable ==
    last.op = "list_slots" =>
        reply.ids = AvailableAt(reply.now)
                    \cup (IF role[last.actor] = "INSTRUCTOR"
                          THEN OwnSlots(last.actor) ELSE {})

\* C13 amended: a listing returns to a caller who is no instructor exactly the
\* available slots that start no earlier than now, and to an instructor
\* exactly their own slots, whatever their availability and start, and no
\* slot of anyone else.
C13_ListByRole ==
    last.op = "list_slots" =>
        reply.ids = IF role[last.actor] = "INSTRUCTOR"
                    THEN OwnSlots(last.actor)
                    ELSE AvailableAt(reply.now)

\* an instructor lists while another instructor's slot is available and ahead,
\* and gets nothing
C13_Witness ==
    /\ last.op = "list_slots"
    /\ role[last.actor] = "INSTRUCTOR"
    /\ \E t \in AvailableAt(reply.now) : time_slots[t].instructor # last.actor
    /\ reply.ids = {}

----------------------------------------------------------------------------
(* Properties of messages *)

\* u participates in the stored conversation c
Participant(u, c) ==
    c \in DOMAIN conversations /\ u \in conversations[c].participants

\* the read flags a send by s into c leaves on the rows stored before it
OthersMarked(s, c) ==
    \A m \in DOMAIN messages :
        /\ m \in DOMAIN messages'
        /\ messages'[m].is_read =
              \/ messages[m].is_read
              \/ messages[m].conversation = c /\ messages[m].sender # s

\* C14: send_message by a user who is no participant of the conversation fails
\* with AuthorizationError (403) and leaves the messages and their read flags
\* as they were.
C14_NonParticipantSendFails ==
    [][(/\ last'.op = "send_message"
        /\ last'.target \in DOMAIN conversations
        /\ ~Participant(last'.actor, last'.target))
       => /\ last'.code = "HTTP_403_FORBIDDEN"
          /\ messages' = messages]_vars

\* C15 as stated: after a successful send_message by s into c, through the
\* endpoint or through MessagingService.send_message, every message of c by
\* another sender that was unread is read, and every other stored message
\* keeps its read flag.
C15_SendMarksOthersRead ==
    [][(\/ last'.op = "send_message" /\ last'.code = "HTTP_201_CREATED"
        \/ last'.op = "MessagingService.send_message")
       => /\ Len(messages') = Len(messages) + 1
          /\ OthersMarked(last'.actor, last'.target)]_vars

\* C15 amended: after a successful send_message by s into c through the
\* endpoint, every message of c by another sender that was unread is read and
\* every other stored message keeps its read flag; after
\* MessagingService.send_message every stored message keeps its read flag and
\* the new message is unread.
C15_EndpointSendMarksOthersRead ==
    [][/\ (last'.op = "send_message" /\ last'.code = "HTTP_201_CREATED")
          => /\ Len(messages') = Len(messages) + 1
             /\ messages'[Len(messages')].sender = last'.actor
             /\ messages'[Len(messages')].conversation = last'.target
             /\ OthersMarked(last'.actor, last'.target)
       /\ last'.op = "MessagingService.send_message"
          => /\ Len(messages') = Len(messages) + 1
             /\ ~messages'[Len(messages')].is_read
             /\ \A m \in DOMAIN messages : messages'[m] = messages[m]]_vars

\* a send through the endpoint has just left a message of another sender read
\* in its conversation, and the sender's new message unread
C15_Witness ==
    /\ last.op = "send_message"
    /\ last.code = "HTTP_201_CREATED"
    /\ \E m \in MessagesOf(last.target) :
          messages[m].sender # last.actor /\ messages[m].is_read
    /\ messages[reply].sender = last.actor
    /\ ~messages[reply].is_read

\* C16 as stated: list_messages by a user who is no participant of the
\* conversation fails with AuthorizationError (403).
C16_NonParticipantGetsNotAuthorized ==
    (/\ last.op = "list_messages"
     /\ last.target \in DOMAIN conversations
     /\ ~Participant(last.actor, last.target))
    => last.code = "HTTP_403_FORBIDDEN"

\* C16 amended: list_messages by a user who is no participant of the
\* conversation fails with Not Found (404) and returns nothing; a participant
\* gets the messages of the conversation; no listing returns to a user a
\* message of a conversation the user does not participate in.
C16_NonParticipantReadsNothing ==
    /\ last.op = "list_messages" =>
          IF Participant(last.actor, last.target)
          THEN last.code = "HTTP_200_OK" /\ reply = MessagesOf(last.target)
          ELSE last.code = "HTTP_404_NOT_FOUND" /\ reply = {}
    /\ last.op \in {"list_messages", "messages"} =>
          \A m \in reply : Participant(last.actor, messages[m].conversation)

\* a user who is no participant has just asked for the messages of a
\* conversation that holds some
C16_Witness ==
    /\ last.op = "list_messages"
    /\ last.target \in DOMAIN conversations
    /\ ~Participant(last.actor, last.target)
    /\ MessagesOf(last.target) # {}
    /\ last.code = "HTTP_404_NOT_FOUND"

----------------------------------------------------------------------------
(* Properties of conversations *)

C18_UnknownParticipantRejected ==
    [][(last'.op = "create_conversation" /\ ~(last'.target \subseteq Users))
       => /\ last'.code = "HTTP_404_NOT_FOUND"
          /\ conversations' = conversations]_vars

\* C19: the conversation a direct chat of a with b returns, found or created,
\* has exactly the participants a and b.
C19_DirectIsExactlyTwo ==
    (/\ last.op = "direct_chat"
     /\ last.code = "HTTP_200_OK"
     /\ last.actor # last.target)
    => conversations[reply].participants = {last.actor, last.target}

\* C20: of two successive direct chat requests for one pair of users, in
\* either order, the second returns the conversation the first returned and
\* creates none.
C20_SecondDirectChatReturnsSame ==
    [][(/\ last.op = "direct_chat"
        /\ last.code = "HTTP_200_OK"
        /\ last'.op = "direct_chat"
        /\ {last'.actor, last'.target} = {last.actor, last.target})
       => /\ last'.code = "HTTP_200_OK"
          /\ reply' = reply
          /\ conversations' = conversations]_vars

\* b has just asked for the direct chat with a and got the conversation that
\* a's request for the direct chat with b had created
C20_Witness ==
    /\ last.op = "direct_chat"
    /\ last.code = "HTTP_200_OK"
    /\ last.actor # last.target
    /\ conversations[reply].title = ChatWith(last.actor)
    /\ conversations[reply].participants = {last.actor, last.target}

----------------------------------------------------------------------------
(* Properties of notifications *)

\* the notifications of u among ids that are unread
OwnUnread(u, ids) ==
    {n \in ids : /\ IsNotification(n)
                 /\ notifications[n].user = u
                 /\ ~notifications[n].is_read}

\* the rows whose read flag the step sets
NewlyRead ==
    {n \in DOMAIN notifications :
        /\ IsNotification(n)
        /\ ~notifications[n].is_read
        /\ notifications'[n] # NoRow
        /\ notifications'[n].is_read}

\* C21 as stated: mark_read(user, ids) never raises for ids that are not the
\* user's or do not exist, and returns as its count the number of the user's
\* notifications among ids that were unread.
C21_ReturnsCountOfOwnUnread ==
    [][last'.op = "mark_read" =>
          /\ last'.code = "HTTP_200_OK"
          /\ "count" \in DOMAIN reply'
          /\ reply'.count = Cardinality(OwnUnread(last'.actor, last'.target))
      ]_vars

\* C21 amended: mark_read(user, ids) never raises for ids that are not the
\* user's or do not exist and answers a fixed status without any count; the
\* notifications it turns read are exactly the user's notifications among ids
\* that were unread; a second call with the same ids right after the first
\* changes nothing.
C21_MarksExactlyOwnUnread ==
    [][/\ last'.op = "mark_read" =>
            /\ last'.code = "HTTP_200_OK"
            /\ reply' = [status |-> "notifications marked as read"]
            /\ NewlyRead = OwnUnread(last'.actor, last'.target)
       /\ (/\ last.op = "mark_read"
           /\ last'.op = "mark_read"
           /\ last'.actor = last.actor
           /\ last'.target = last.target)
          => notifications' = notifications]_vars

\* a user has just marked a list that names a notification of their own, a
\* notification of someone else and an id of no notification
C21_Witness ==
    /\ last.op = "mark_read"
    /\ last.code = "HTTP_200_OK"
    /\ \E n \in last.target : n \notin DOMAIN notifications
    /\ \E n \in last.target :
          IsNotification(n) /\ notifications[n].user # last.actor
    /\ \E n \in last.target :
          /\ IsNotification(n)
          /\ notifications[n].user = last.actor
          /\ notifications[n].is_read

\* C22: mark_read(user, ids) changes nothing but the read flag of the
\* notifications of user among ids: the notifications of other users, listed
\* or not, and the user's notifications that are not listed stay as they are,
\* and so does the unread count of every other user.
C22_MarkReadTouchesOwnListedOnly ==
    [][last'.op = "mark_read" =>
          /\ DOMAIN notifications' = DOMAIN notifications
          /\ \A n \in DOMAIN notifications :
                IF /\ IsNotification(n)
                   /\ notifications[n].user = last'.actor
                   /\ n \in last'.target
                THEN notifications'[n]
                       = [notifications[n] EXCEPT !.is_read = TRUE]
                ELSE notifications'[n] = notifications[n]
          /\ \A v \in Users \ {last'.actor} :
                UnreadOf(notifications', v) = UnreadOf(notifications, v)
          /\ UNCHANGED <<role, bookings, time_slots, conversations, messages>>
      ]_vars

\* a user has just marked a list that names an unread notification of someone
\* else and an own one
C22_Witness ==
    /\ last.op = "mark_read"
    /\ \E n \in last.target :
          /\ IsNotification(n)
          /\ notifications[n].user # last.actor
          /\ ~notifications[n].is_read
    /\ \E n \in last.target :
          /\ IsNotification(n)
          /\ notifications[n].user = last.actor
          /\ notifications[n].is_read

\* C24: a stored notification is changed by mark_read only, which turns its
\* read flag from unread to read: its user, type and title stay, its read
\* flag never returns to unread, and it is never deleted.
C24_OnlyMarkReadChanges ==
    [][\A n \in DOMAIN notifications :
          IsNotification(n) =>
              /\ notifications'[n] # NoRow
              /\ notifications'[n].user = notifications[n].user
              /\ notifications'[n].notification_type
                   = notifications[n].notification_type
              /\ notifications'[n].title = notifications[n].title
              /\ notifications[n].is_read => notifications'[n].is_read
              /\ notifications'[n] # notifications[n]
                   => last'.op = "mark_read"]_vars

----------------------------------------------------------------------------
(* Properties of stored messages *)

----------------------------------------------------------------------------
(* Properties of accounts *)

\* C25: no request of a user who is no admin, an update of the own profile
\* included, changes the role of a user.
C25_OnlyAdminChangesRole ==
    [][role' # role => role[last'.actor] = "ADMIN"]_vars

\* the answer carries a token pair
TokenPair == {"refresh", "access"} \subseteq DOMAIN reply

\* C29: a login with credentials that fail validation is answered 400 with
\* the validation errors and gets no tokens; a token pair is issued only when
\* validation succeeded, and for the authenticated user.
C29_InvalidLoginAnswers400 ==
    last.op = "login" =>
        IF CredentialsValid(last.target, last.password)
        THEN /\ last.code = "HTTP_200_OK"
             /\ TokenPair
             /\ reply.refresh = last.target /\ reply.access = last.target
        ELSE /\ last.code = "HTTP_400_BAD_REQUEST"
             /\ "errors" \in DOMAIN reply
             /\ ~TokenPair

----------------------------------------------------------------------------
(* Properties of password resets *)

\* C30: reset_password changes the password only for a token that exists, is
\* unused and has not expired, and marks that token used; every other attempt
\* (unknown, used or expired token, rejected password) fails and leaves the
\* passwords and the tokens as they were; a used token stays used, so it
\* changes no password again.  (A step that leaves the clock alone is a
\* request.)
C30_TokenIsSingleUse ==
    [][/\ (last'.op = "reset_password" /\ clock' = clock) =>
            IF /\ last'.target \in DOMAIN resets
               /\ ~resets[last'.target].is_used
               /\ resets[last'.target].expires_at > clock
               /\ last'.new_password # "weak"
            THEN /\ last'.code = "HTTP_200_OK"
                 /\ password' = [password EXCEPT
                                   ![resets[last'.target].user]
                                       = last'.new_password]
                 /\ resets' = [resets EXCEPT ![last'.target].is_used = TRUE]
            ELSE /\ last'.code = "HTTP_400_BAD_REQUEST"
                 /\ password' = password
                 /\ resets' = resets
       /\ password' # password => last'.op = "reset_password"
       /\ \A t \in DOMAIN resets :
            /\ t \in DOMAIN resets'
            /\ resets[t].is_used => resets'[t].is_used]_vars

\* a token that has set a password has just been refused, within its hour,
\* with another password, and the password it had set is still there
C30_Witness ==
    /\ last.op = "reset_password"
    /\ last.code = "HTTP_400_BAD_REQUEST"
    /\ last.target \in DOMAIN resets
    /\ resets[last.target].is_used
    /\ resets[last.target].expires_at > clock
    /\ last.new_password = "newer"
    /\ password[resets[last.target].user] = "new"

----------------------------------------------------------------------------
(* Properties of stored time slots *)

\* C26: a stored time slot is changed only by a request of its owning
\* instructor: no request of a user with another role, and no request of
\* another instructor, changes it.
C26_OnlyOwnerChangesSlot ==
    [][\A t \in DOMAIN time_slots :
          time_slots'[t] # time_slots[t]
          => last'.actor = time_slots[t].instructor]_vars

----------------------------------------------------------------------------
(* Properties of concurrent requests *)

\* every worker has answered its request
Quiet == \A w \in Workers : inflight[w].op = "idle"

\* C27: send_message requests of the two participants of a conversation act
\* as if run one after the other: when every request has completed, the
\* message created last is unread.
C27_LastMessageUnread ==
    (Quiet /\ messages # <<>>) => ~messages[Len(messages)].is_read

\* C28: however two direct_chat requests of the same pair interleave, at
\* most one conversation holds the pair and two answered requests carry the
\* same conversation.
C28_OneDirectChat ==
    /\ Cardinality(WithBoth("u1", "u2")) <= 1
    /\ \A v, w \in Workers :
          (inflight[v].op = "answered" /\ inflight[w].op = "answered")
          => inflight[v].row = inflight[w].row

====
